---------------------------- MODULE Spec2Model ----------------------------
(***************************************************************************)
(* Model of WSL/wsl/data/datasets/builtin.py: the registration of the      *)
(* built-in datasets in the DatasetCatalog and the MetadataCatalog.        *)
(*                                                                         *)
(* A Python string is a sequence of tokens: the separator characters       *)
(* "/", ":" and "_" and the years "2007" and "2012" are tokens of their    *)
(* own, and every other token is a run of characters holding none of       *)
(* them.  So the text of "VOC2007/JPEGImages" is                           *)
(* <<"VOC", "2007", "/", "JPEGImages">>, and the substring tests, replace  *)
(* and os.path.join are computed on the tokens.                            *)
(*                                                                         *)
(* DatasetCatalog, MetadataCatalog and the register_* adapters are         *)
(* imported by builtin.py; they are modelled here by their contracts.      *)
(***************************************************************************)
EXTENDS Integers, Sequences, FiniteSets, TLC

VARIABLES
    root,   \* the dataset root (WSL_DATASETS)
    dc,     \* DatasetCatalog: name -> loader
    mc,     \* MetadataCatalog: name -> (attribute -> value)
    err,    \* the exception raised ("none": none)
    pc,     \* the position of the program
    loc,    \* the locals image_root, instances_json of register_all_voc_sbd
    last,   \* the last call made: its function, name and arguments
    ret,    \* what the last DatasetCatalog.get returned
    given,  \* the loader the last DatasetCatalog.register was given
    inp     \* the path fragments of the table entry a routine is applied to

vars == <<root, dc, mc, err, pc, loc, last, ret, given, inp>>

-----------------------------------------------------------------------------
(* Strings *)

\* sub occurs in s at position i
OccursAt(s, sub, i) ==
    /\ i >= 1
    /\ i + Len(sub) - 1 <= Len(s)
    /\ \A k \in 1..Len(sub) : s[i + k - 1] = sub[k]

\* Python: sub in s
Contains(s, sub) == \E i \in 1..(Len(s) + 1) : OccursAt(s, sub, i)

RECURSIVE ReplaceFrom(_, _, _, _)
ReplaceFrom(s, old, new, i) ==
    IF i > Len(s) THEN << >>
    ELSE IF OccursAt(s, old, i)
         THEN new \o ReplaceFrom(s, old, new, i + Len(old))
         ELSE <<s[i]>> \o ReplaceFrom(s, old, new, i + 1)

\* Python: s.replace(old, new), every occurrence, left to right (old non-empty)
Replace(s, old, new) == ReplaceFrom(s, old, new, 1)

\* Python (posix): os.path.join(a, b)
PathJoin(a, b) ==
    IF Len(b) > 0 /\ b[1] = "/" THEN b
    ELSE IF Len(a) = 0 \/ a[Len(a)] = "/" THEN a \o b
    ELSE a \o <<"/">> \o b

SchemeSep == <<":", "/", "/">>


-----------------------------------------------------------------------------
(* The two catalogs.  A catalog state is [dc, mc, err]: dc maps a dataset  *)
(* name to its loader, mc maps a name to its metadata record (a map from   *)
(* attribute name to value), err is the exception raised so far ("none"    *)
(* when there is none).  A call made after an exception was raised does    *)
(* nothing: the exception propagates through the caller.                   *)

EmptyMap == [x \in {} |-> x]

Put(f, k, v) == [x \in (DOMAIN f) \cup {k} |-> IF x = k THEN v ELSE f[x]]

CatalogState(d, m, e) == [dc |-> d, mc |-> m, err |-> e]

\* A loader is a closure: a function object with an identity of its own (id)
\* holding the values it closes over.  year is 0 for a loader that takes none.
Loader(id, kind, name, args, year) ==
    [id |-> id, kind |-> kind, name |-> name, args |-> args, year |-> year]

\* the identity of a newly created closure: that of no registered loader
FreshId(d) ==
    CHOOSE i \in 1..(Cardinality(DOMAIN d) + 1) :
        /\ \A n \in DOMAIN d : d[n].id # i
        /\ \A j \in 1..(i - 1) : \E n \in DOMAIN d : d[n].id = j

DatasetCatalog_register_shadow(s, name, loader) ==
    IF s.err # "none" THEN s
    ELSE [s EXCEPT !.dc = Put(s.dc, name, loader)]

DatasetCatalog_register(s, name, loader) ==
    IF s.err # "none" THEN s
    ELSE IF name \in DOMAIN s.dc
         THEN IF s.dc[name].id = loader.id
              THEN s
              ELSE [s EXCEPT !.err = "DuplicateRegistration"]
         ELSE [s EXCEPT !.dc = Put(s.dc, name, loader)]

\* get-or-create
MetadataCatalog_get(s, name) ==
    IF s.err # "none" \/ name \in DOMAIN s.mc THEN s
    ELSE [s EXCEPT !.mc = Put(s.mc, name, EmptyMap)]

Metadata_setattr_overwrite(s, name, key, value) ==
    IF s.err # "none" THEN s
    ELSE [s EXCEPT !.mc = Put(s.mc, name, Put(s.mc[name], key, value))]

\* one attribute of the record of name, which exists
Metadata_setattr(s, name, key, value) ==
    IF s.err # "none" THEN s
    ELSE IF key \in DOMAIN s.mc[name]
         THEN IF s.mc[name][key] = value
              THEN s
              ELSE [s EXCEPT !.err = "MetadataConflict"]
         ELSE [s EXCEPT !.mc = Put(s.mc, name, Put(s.mc[name], key, value))]

RECURSIVE Metadata_set(_, _, _)
\* the bulk variant: the entries of kvs (<<key, value>> pairs), in order
Metadata_set(s, name, kvs) ==
    IF kvs = << >> THEN s
    ELSE Metadata_set(Metadata_setattr(s, name, kvs[1][1], kvs[1][2]),
                      name, Tail(kvs))

\* reading an attribute of the record of name, which exists: an attribute
\* that was never set is an error, not a None
Metadata_getattr(s, name, key) ==
    IF s.err # "none" \/ key \in DOMAIN s.mc[name] THEN s
    ELSE [s EXCEPT !.err = "MissingPairedMetadata"]

-----------------------------------------------------------------------------
(* The format adapters and the metadata provider *)

_get_builtin_metadata(key) == << <<"thing_classes", <<"classes", ":">> \o key>> >>

register_coco_instances(s, name, metadata, json_file, image_root) ==
    LET s1 == DatasetCatalog_register(
                  s, name, Loader(FreshId(s.dc), "coco", name, <<json_file, image_root>>, 0))
        s2 == MetadataCatalog_get(s1, name)
    IN  Metadata_set(s2, name,
            << <<"json_file", json_file>>, <<"image_root", image_root>> >> \o metadata)

SeparatedName(name) == name \o <<"_", "separated">>

register_coco_panoptic_separated(s, name, metadata, image_root, panoptic_root, panoptic_json, sem_seg_root, instances_json) ==
    LET pname == SeparatedName(name)
        s1 == DatasetCatalog_register(
                  s, pname,
                  Loader(FreshId(s.dc), "panoptic_separated", pname,
                         <<instances_json, image_root, sem_seg_root>>, 0))
        s2 == MetadataCatalog_get(s1, pname)
    IN  Metadata_set(s2, pname,
            << <<"panoptic_root", panoptic_root>>, <<"image_root", image_root>>,
               <<"panoptic_json", panoptic_json>>, <<"semantic_root", sem_seg_root>>,
               <<"json_file", instances_json>> >> \o metadata)

register_coco_panoptic(s, name, metadata, image_root, panoptic_root, panoptic_json, instances_json) ==
    LET s1 == DatasetCatalog_register(
                  s, name,
                  Loader(FreshId(s.dc), "panoptic_standard", name,
                         <<panoptic_json, image_root, panoptic_root>>, 0))
        s2 == MetadataCatalog_get(s1, name)
    IN  Metadata_set(s2, name,
            << <<"panoptic_root", panoptic_root>>, <<"image_root", image_root>>,
               <<"panoptic_json", panoptic_json>>,
               <<"json_file", instances_json>> >> \o metadata)

register_pascal_voc(s, name, dirname, split, year) ==
    DatasetCatalog_register(
        s, name, Loader(FreshId(s.dc), "voc", name, <<dirname, split>>, year))

-----------------------------------------------------------------------------
(* The split tables, in their order of definition *)

SPLITS ==
    << [name |-> <<"voc", "_", "2007", "_", "trainval">>, dirname |-> <<"VOC", "2007">>, split |-> <<"trainval">>],
       [name |-> <<"voc", "_", "2007", "_", "train">>, dirname |-> <<"VOC", "2007">>, split |-> <<"train">>],
       [name |-> <<"voc", "_", "2007", "_", "val">>, dirname |-> <<"VOC", "2007">>, split |-> <<"val">>],
       [name |-> <<"voc", "_", "2007", "_", "test">>, dirname |-> <<"VOC", "2007">>, split |-> <<"test">>],
       [name |-> <<"voc", "_", "2012", "_", "trainval">>, dirname |-> <<"VOC", "2012">>, split |-> <<"trainval">>],
       [name |-> <<"voc", "_", "2012", "_", "train">>, dirname |-> <<"VOC", "2012">>, split |-> <<"train">>],
       [name |-> <<"voc", "_", "2012", "_", "val">>, dirname |-> <<"VOC", "2012">>, split |-> <<"val">>],
       [name |-> <<"voc", "_", "2012", "_", "test">>, dirname |-> <<"VOC", "2012">>, split |-> <<"test">>] >>

\* the tables that are not nested have no dataset name
NoDataset == << >>

CocoSplit(dataset_name, key, image_root, json_file) ==
    [dataset_name |-> dataset_name, key |-> key, image_root |-> image_root, json_file |-> json_file]

_PREDEFINED_SPLITS_WEB ==
    << CocoSplit(<<"flickr">>, <<"flickr", "_", "voc">>,
                 <<"flickr", "_", "voc", "/", "images">>,
                 <<"flickr", "_", "voc", "/", "images", "_", "d2.json">>),
       CocoSplit(<<"flickr">>, <<"flickr", "_", "coco">>,
                 <<"flickr", "_", "coco", "/", "images">>,
                 <<"flickr", "_", "coco", "/", "images", "_", "d2.json">>) >>

_PREDEFINED_SPLITS_VOC_PGT ==
    << CocoSplit(<<"voc", "_", "2007", "_", "pgt">>, <<"voc", "_", "2007", "_", "train", "_", "pgt">>,
                 <<"VOC", "2007", "/", "JPEGImages">>,
                 <<"VOC", "2007", "/", "..", "/", "results", "/", "VOC", "2007", "/", "Main", "/",
                   "voc", "_", "2007", "_", "train", "_", "pgt.json">>),
       CocoSplit(<<"voc", "_", "2007", "_", "pgt">>, <<"voc", "_", "2007", "_", "val", "_", "pgt">>,
                 <<"VOC", "2007", "/", "JPEGImages">>,
                 <<"VOC", "2007", "/", "..", "/", "results", "/", "VOC", "2007", "/", "Main", "/",
                   "voc", "_", "2007", "_", "val", "_", "pgt.json">>) >>

SbdImages == <<"VOC", "_", "SBD", "/", "images">>

SbdAnnotations == <<"VOC", "_", "SBD", "/", "annotations", "/">>

_PREDEFINED_SPLITS_VOC_SBD ==
    << CocoSplit(NoDataset, <<"voc", "_", "2012", "_", "train", "_", "instance">>, SbdImages,
                 SbdAnnotations \o <<"voc", "_", "2012", "_", "train", "_", "instance.json">>),
       CocoSplit(NoDataset, <<"voc", "_", "2012", "_", "val", "_", "instance">>, SbdImages,
                 SbdAnnotations \o <<"voc", "_", "2012", "_", "val", "_", "instance.json">>),
       CocoSplit(NoDataset, <<"sbd", "_", "9118", "_", "instance">>, SbdImages,
                 SbdAnnotations \o <<"sbd", "_", "9118", "_", "instance.json">>),
       CocoSplit(NoDataset, <<"voc", "_", "2012", "_", "train", "_", "instance", "_", "pgt">>, SbdImages,
                 SbdAnnotations \o <<"voc", "_", "2012", "_", "train", "_", "instance", "_", "pgt.json">>),
       CocoSplit(NoDataset, <<"sbd", "_", "9118", "_", "instance", "_", "pgt">>, SbdImages,
                 SbdAnnotations \o <<"sbd", "_", "9118", "_", "instance", "_", "pgt.json">>) >>

PanopticSplit(prefix, panoptic_root, panoptic_json, semantic_root) ==
    [prefix |-> prefix, panoptic_root |-> panoptic_root, panoptic_json |-> panoptic_json, semantic_root |-> semantic_root]

_PREDEFINED_SPLITS_VOC_SBD_PANOPTIC ==
    << PanopticSplit(<<"voc", "_", "2012", "_", "train", "_", "panoptic">>,
                     SbdAnnotations \o <<"panoptic">>,
                     SbdAnnotations \o <<"voc", "_", "2012", "_", "train", "_", "panoptic.json">>,
                     SbdAnnotations \o <<"panoptic", "_", "stuff">>),
       PanopticSplit(<<"voc", "_", "2012", "_", "val", "_", "panoptic">>,
                     SbdAnnotations \o <<"panoptic">>,
                     SbdAnnotations \o <<"voc", "_", "2012", "_", "val", "_", "panoptic.json">>,
                     SbdAnnotations \o <<"panoptic", "_", "stuff">>),
       PanopticSplit(<<"sbd", "_", "9118", "_", "panoptic">>,
                     SbdAnnotations \o <<"panoptic">>,
                     SbdAnnotations \o <<"sbd", "_", "9118", "_", "panoptic.json">>,
                     SbdAnnotations \o <<"panoptic", "_", "stuff">>) >>

VocJpeg(year) == <<"VOC", year, "/", "JPEGImages", "/">>

PascalJson(split, year) == <<"PASCAL", "_", "VOC", "/", "pascal", "_", split, year, "_", "d2.json">>

_PREDEFINED_SPLITS_VOC_JSON ==
    << CocoSplit(NoDataset, <<"voc", "_", "2007", "_", "train", "_", "json">>, VocJpeg("2007"), PascalJson("train", "2007")),
       CocoSplit(NoDataset, <<"voc", "_", "2007", "_", "val", "_", "json">>, VocJpeg("2007"), PascalJson("val", "2007")),
       CocoSplit(NoDataset, <<"voc", "_", "2007", "_", "test", "_", "json">>, VocJpeg("2007"), PascalJson("test", "2007")),
       CocoSplit(NoDataset, <<"voc", "_", "2012", "_", "train", "_", "json">>, VocJpeg("2012"), PascalJson("train", "2012")),
       CocoSplit(NoDataset, <<"voc", "_", "2012", "_", "val", "_", "json">>, VocJpeg("2012"), PascalJson("val", "2012")) >>

-----------------------------------------------------------------------------
(* The registration routines: what one iteration of each loop does to the  *)
(* catalogs, r being the root                                              *)

PascalVocYear_inverted(name) == IF Contains(name, <<"2007">>) THEN 2012 ELSE 2007

PascalVocYear(name) == IF Contains(name, <<"2007">>) THEN 2007 ELSE 2012

PascalVocArgs(r, e) == <<PathJoin(r, e.dirname), e.split>>

PascalVocRegister(s, r, e) ==
    register_pascal_voc(s, e.name, PascalVocArgs(r, e)[1], PascalVocArgs(r, e)[2], PascalVocYear(e.name))

PascalVocEvaluator(s, e) ==
    Metadata_setattr(MetadataCatalog_get(s, e.name), e.name, "evaluator_type", <<"pascal", "_", "voc">>)

PascalVocEntry(s, r, e) == PascalVocEvaluator(PascalVocRegister(s, r, e), e)

CocoArgs_bothchecked(r, e) ==
    << IF ~Contains(e.json_file, SchemeSep) THEN PathJoin(r, e.json_file) ELSE e.json_file,
       IF ~Contains(e.image_root, SchemeSep) THEN PathJoin(r, e.image_root) ELSE e.image_root >>

\* the arguments json_file, image_root of register_coco_instances
CocoArgs(r, e) ==
    << IF ~Contains(e.json_file, SchemeSep) THEN PathJoin(r, e.json_file) ELSE e.json_file,
       PathJoin(r, e.image_root) >>

WebEntry(s, r, e) ==
    register_coco_instances(s, e.key, _get_builtin_metadata(e.key), CocoArgs(r, e)[1], CocoArgs(r, e)[2])

VocPgtEntry(s, r, e) ==
    register_coco_instances(s, e.key, _get_builtin_metadata(e.dataset_name), CocoArgs(r, e)[1], CocoArgs(r, e)[2])

VocSbdEntry(s, r, e) ==
    register_coco_instances(s, e.key, _get_builtin_metadata(<<"voc", "_", "sbd">>), CocoArgs(r, e)[1], CocoArgs(r, e)[2])

VocJsonEntry(s, r, e) ==
    register_coco_instances(s, e.key, _get_builtin_metadata(<<"voc", "_", "json">>), CocoArgs(r, e)[1], CocoArgs(r, e)[2])

PrefixInstances_typo(prefix) == Replace(prefix, <<"_", "panoptic">>, <<"_", "instances">>)

PrefixInstances(prefix) == Replace(prefix, <<"_", "panoptic">>, <<"_", "instance">>)

\* instances_meta = MetadataCatalog.get(prefix_instances), then the two reads
PanopticRead(s, prefix) ==
    LET s1 == MetadataCatalog_get(s, PrefixInstances(prefix))
    IN  Metadata_getattr(Metadata_getattr(s1, PrefixInstances(prefix), "image_root"),
                         PrefixInstances(prefix), "json_file")

PanopticLocals_swapped(s, prefix) ==
    [image_root |-> s.mc[PrefixInstances(prefix)]["json_file"],
     instances_json |-> s.mc[PrefixInstances(prefix)]["image_root"]]

\* the locals image_root, instances_json after the reads succeeded
PanopticLocals(s, prefix) ==
    [image_root |-> s.mc[PrefixInstances(prefix)]["image_root"],
     instances_json |-> s.mc[PrefixInstances(prefix)]["json_file"]]

NoLocals == [image_root |-> << >>, instances_json |-> << >>]

SeparatedArgs(r, e, l) ==
    <<l.image_root, PathJoin(r, e.panoptic_root), PathJoin(r, e.panoptic_json),
      PathJoin(r, e.semantic_root), l.instances_json>>

PanopticSeparated(s, r, e, l) ==
    LET a == SeparatedArgs(r, e, l)
    IN  register_coco_panoptic_separated(
            s, e.prefix, _get_builtin_metadata(<<"voc", "_", "sbd", "_", "panoptic", "_", "separated">>),
            a[1], a[2], a[3], a[4], a[5])

StandardArgs(r, e, l) ==
    <<l.image_root, PathJoin(r, e.panoptic_root), PathJoin(r, e.panoptic_json), l.instances_json>>

PanopticStandard_separated(s, r, e, l) == PanopticSeparated(s, r, e, l)

PanopticStandard(s, r, e, l) ==
    LET a == StandardArgs(r, e, l)
    IN  register_coco_panoptic(
            s, e.prefix, _get_builtin_metadata(<<"voc", "_", "sbd", "_", "panoptic", "_", "standard">>),
            a[1], a[2], a[3], a[4])

\* reading with a default: None (the empty string here) where unset
VocSbdPanopticEntry_defaults(s, r, e) ==
    LET s1 == MetadataCatalog_get(s, PrefixInstances(e.prefix))
        m == s1.mc[PrefixInstances(e.prefix)]
        l == [image_root |-> IF "image_root" \in DOMAIN m THEN m["image_root"] ELSE << >>,
              instances_json |-> IF "json_file" \in DOMAIN m THEN m["json_file"] ELSE << >>]
    IN  PanopticStandard(PanopticSeparated(s1, r, e, l), r, e, l)

\* one iteration of the second loop of register_all_voc_sbd
VocSbdPanopticEntry(s, r, e) ==
    LET s1 == PanopticRead(s, e.prefix)
    IN  IF s1.err # "none" THEN s1
        ELSE PanopticStandard(PanopticSeparated(s1, r, e, PanopticLocals(s1, e.prefix)),
                              r, e, PanopticLocals(s1, e.prefix))

-----------------------------------------------------------------------------
(* The bootstrap: the five routines in order, one step per adapter call.   *)
(* pc is <<phase, i>>: the loop the program is in and the table entry it   *)
(* is at; an exception ends the program (phase "raised").                  *)

\* WSL_DATASETS: the default, the empty string, an absolute directory with a
\* trailing slash, a URI
Roots == { <<"datasets">>, << >>, <<"/", "data", "/">>, <<"s3", ":", "/", "/", "bucket">> }

Call(fn, name, args, year) == [fn |-> fn, name |-> name, args |-> args, year |-> year]

NoCall == Call("none", << >>, << >>, 0)

NoLoader == Loader(0, "none", << >>, << >>, 0)

NoInput == << >>

Cur == CatalogState(dc, mc, err)

Commit(s, nextpc) ==
    /\ dc' = s.dc
    /\ mc' = s.mc
    /\ err' = s.err
    /\ pc' = IF s.err = "none" THEN nextpc ELSE <<"raised", 0>>

\* the position after entry i of table: the next entry, or the next loop
After(phase, i, table, nextphase) ==
    IF i < Len(table) THEN <<phase, i + 1>> ELSE <<nextphase, 1>>

Init ==
    /\ root \in Roots
    /\ dc = EmptyMap
    /\ mc = EmptyMap
    /\ err = "none"
    /\ pc = <<"pascal_voc_register", 1>>
    /\ loc = NoLocals
    /\ last = NoCall
    /\ ret = NoLoader
    /\ given = NoLoader
    /\ inp = NoInput

PascalVocRegisterStep ==
    /\ pc[1] = "pascal_voc_register"
    /\ LET e == SPLITS[pc[2]]
       IN  /\ Commit(PascalVocRegister(Cur, root, e), <<"pascal_voc_evaluator", pc[2]>>)
           /\ last' = Call("register_pascal_voc", e.name, PascalVocArgs(root, e), PascalVocYear(e.name))
    /\ UNCHANGED <<root, loc, ret, given, inp>>

PascalVocEvaluatorStep ==
    /\ pc[1] = "pascal_voc_evaluator"
    /\ LET e == SPLITS[pc[2]]
       IN  /\ Commit(PascalVocEvaluator(Cur, e), After("pascal_voc_register", pc[2], SPLITS, "web"))
           /\ last' = Call("evaluator_type", e.name, << >>, 0)
    /\ UNCHANGED <<root, loc, ret, given, inp>>

WebStep ==
    /\ pc[1] = "web"
    /\ LET e == _PREDEFINED_SPLITS_WEB[pc[2]]
       IN  /\ Commit(WebEntry(Cur, root, e), After("web", pc[2], _PREDEFINED_SPLITS_WEB, "voc_pgt"))
           /\ last' = Call("register_coco_instances", e.key, CocoArgs(root, e), 0)
    /\ UNCHANGED <<root, loc, ret, given, inp>>

VocPgtStep ==
    /\ pc[1] = "voc_pgt"
    /\ LET e == _PREDEFINED_SPLITS_VOC_PGT[pc[2]]
       IN  /\ Commit(VocPgtEntry(Cur, root, e), After("voc_pgt", pc[2], _PREDEFINED_SPLITS_VOC_PGT, "voc_sbd"))
           /\ last' = Call("register_coco_instances", e.key, CocoArgs(root, e), 0)
    /\ UNCHANGED <<root, loc, ret, given, inp>>

VocSbdStep ==
    /\ pc[1] = "voc_sbd"
    /\ LET e == _PREDEFINED_SPLITS_VOC_SBD[pc[2]]
       IN  /\ Commit(VocSbdEntry(Cur, root, e), After("voc_sbd", pc[2], _PREDEFINED_SPLITS_VOC_SBD, "panoptic_read"))
           /\ last' = Call("register_coco_instances", e.key, CocoArgs(root, e), 0)
    /\ UNCHANGED <<root, loc, ret, given, inp>>

PanopticReadStep ==
    /\ pc[1] = "panoptic_read"
    /\ LET e == _PREDEFINED_SPLITS_VOC_SBD_PANOPTIC[pc[2]]
           s == PanopticRead(Cur, e.prefix)
       IN  /\ Commit(s, <<"panoptic_separated", pc[2]>>)
           /\ loc' = IF s.err = "none" THEN PanopticLocals(s, e.prefix) ELSE NoLocals
           /\ last' = Call("instances_meta", PrefixInstances(e.prefix), << >>, 0)
    /\ UNCHANGED <<root, ret, given, inp>>

PanopticSeparatedStep ==
    /\ pc[1] = "panoptic_separated"
    /\ LET e == _PREDEFINED_SPLITS_VOC_SBD_PANOPTIC[pc[2]]
       IN  /\ Commit(PanopticSeparated(Cur, root, e, loc), <<"panoptic_standard", pc[2]>>)
           /\ last' = Call("register_coco_panoptic_separated", e.prefix, SeparatedArgs(root, e, loc), 0)
    /\ UNCHANGED <<root, loc, ret, given, inp>>

PanopticStandardStep ==
    /\ pc[1] = "panoptic_standard"
    /\ LET e == _PREDEFINED_SPLITS_VOC_SBD_PANOPTIC[pc[2]]
       IN  /\ Commit(PanopticStandard(Cur, root, e, loc),
                     After("panoptic_read", pc[2], _PREDEFINED_SPLITS_VOC_SBD_PANOPTIC, "voc_json"))
           /\ last' = Call("register_coco_panoptic", e.prefix, StandardArgs(root, e, loc), 0)
    /\ UNCHANGED <<root, loc, ret, given, inp>>

VocJsonStep ==
    /\ pc[1] = "voc_json"
    /\ LET e == _PREDEFINED_SPLITS_VOC_JSON[pc[2]]
       IN  /\ Commit(VocJsonEntry(Cur, root, e), After("voc_json", pc[2], _PREDEFINED_SPLITS_VOC_JSON, "done"))
           /\ last' = Call("register_coco_instances", e.key, CocoArgs(root, e), 0)
    /\ UNCHANGED <<root, loc, ret, given, inp>>

Next ==
    \/ PascalVocRegisterStep
    \/ PascalVocEvaluatorStep
    \/ WebStep
    \/ VocPgtStep
    \/ VocSbdStep
    \/ PanopticReadStep
    \/ PanopticSeparatedStep
    \/ PanopticStandardStep
    \/ VocJsonStep

Spec == Init /\ [][Next]_vars

-----------------------------------------------------------------------------
(* Properties of the bootstrap (Spec) *)

Range(s) == {s[i] : i \in DOMAIN s}

PanopticPhases == {"panoptic_read", "panoptic_separated", "panoptic_standard"}

\* the loops that follow the named one
PhasesAfterPascalVoc ==
    {"web", "voc_pgt", "voc_sbd", "voc_json", "done"} \cup PanopticPhases

InstanceKeys == {e.key : e \in Range(_PREDEFINED_SPLITS_VOC_SBD)}

PanopticPrefixes == {e.prefix : e \in Range(_PREDEFINED_SPLITS_VOC_SBD_PANOPTIC)}

\* every name the five routines hand to an adapter, and the names the
\* separated adapter derives
TableNames ==
    {e.name : e \in Range(SPLITS)}
        \cup {e.key : e \in Range(_PREDEFINED_SPLITS_WEB)}
        \cup {e.key : e \in Range(_PREDEFINED_SPLITS_VOC_PGT)}
        \cup InstanceKeys
        \cup PanopticPrefixes
        \cup {e.key : e \in Range(_PREDEFINED_SPLITS_VOC_JSON)}

ProducedNames == TableNames \cup {SeparatedName(p) : p \in PanopticPrefixes}

ProducedCount ==
    Len(SPLITS) + Len(_PREDEFINED_SPLITS_WEB) + Len(_PREDEFINED_SPLITS_VOC_PGT)
        + Len(_PREDEFINED_SPLITS_VOC_SBD) + 2 * Len(_PREDEFINED_SPLITS_VOC_SBD_PANOPTIC)
        + Len(_PREDEFINED_SPLITS_VOC_JSON)

\* the table a loop walks; a step of the loop is enabled at each of its entries
TableOf(phase) ==
    CASE phase \in {"pascal_voc_register", "pascal_voc_evaluator"} -> SPLITS
      [] phase = "web" -> _PREDEFINED_SPLITS_WEB
      [] phase = "voc_pgt" -> _PREDEFINED_SPLITS_VOC_PGT
      [] phase = "voc_sbd" -> _PREDEFINED_SPLITS_VOC_SBD
      [] phase \in PanopticPhases -> _PREDEFINED_SPLITS_VOC_SBD_PANOPTIC
      [] phase = "voc_json" -> _PREDEFINED_SPLITS_VOC_JSON
      [] OTHER -> << >>

\* the panoptic splits whose two registrations are over
PanopticDone ==
    IF pc[1] \in {"voc_json", "done"} THEN PanopticPrefixes
    ELSE IF pc[1] \in PanopticPhases
         THEN {_PREDEFINED_SPLITS_VOC_SBD_PANOPTIC[j].prefix : j \in 1..(pc[2] - 1)}
         ELSE {}

(* C5: every panoptic split of the VOC+SBD table, registered after its     *)
(* instance split, ends bound under two distinct names with two distinct   *)
(* loaders over the same image root: the separated name, whose record has  *)
(* semantic_root, and the standard name, whose record has none; and no     *)
(* step of the panoptic loop raises.                                       *)
C5_TwoPanopticNames ==
    /\ pc[1] \in PanopticPhases => err = "none"
    /\ last.fn \in {"instances_meta", "register_coco_panoptic_separated", "register_coco_panoptic"}
           => err = "none"
    /\ \A p \in PanopticDone :
        /\ p # SeparatedName(p)
        /\ p \in DOMAIN dc /\ SeparatedName(p) \in DOMAIN dc
        /\ dc[p].id # dc[SeparatedName(p)].id
        /\ dc[p].kind = "panoptic_standard"
        /\ dc[SeparatedName(p)].kind = "panoptic_separated"
        /\ dc[p].args[2] = dc[SeparatedName(p)].args[2]
        /\ dc[p].args[2] = mc[PrefixInstances(p)]["image_root"]
        /\ "semantic_root" \in DOMAIN mc[SeparatedName(p)]
        /\ "semantic_root" \notin DOMAIN mc[p]

C5_Witness == pc[1] = "done" /\ Cardinality(PanopticDone) = Len(_PREDEFINED_SPLITS_VOC_SBD_PANOPTIC)

(* C7: after register_all_pascal_voc every Pascal-VOC name is bound to a   *)
(* loader over os.path.join(root, dirname) and its table split, with year  *)
(* 2007 exactly when "2007" occurs in the name and 2012 otherwise, and has *)
(* evaluator_type "pascal_voc"; the evaluator_type is set when the name is *)
(* already bound.                                                          *)
C7_PascalVoc ==
    /\ pc[1] \in PhasesAfterPascalVoc =>
        \A i \in 1..Len(SPLITS) :
            LET e == SPLITS[i]
            IN  /\ e.name \in DOMAIN dc
                /\ dc[e.name].kind = "voc"
                /\ dc[e.name].args = <<PathJoin(root, e.dirname), e.split>>
                /\ dc[e.name].year = (IF "2007" \in Range(e.name) THEN 2007 ELSE 2012)
                /\ dc[e.name].year = (IF i <= 4 THEN 2007 ELSE 2012)
                /\ mc[e.name]["evaluator_type"] = <<"pascal", "_", "voc">>
    /\ (pc[1] \in PhasesAfterPascalVoc /\ root = <<"datasets">>) =>
        /\ dc[<<"voc", "_", "2007", "_", "trainval">>].args
               = << <<"datasets", "/", "VOC", "2007">>, <<"trainval">> >>
        /\ dc[<<"voc", "_", "2007", "_", "trainval">>].year = 2007
        /\ dc[<<"voc", "_", "2012", "_", "test">>].year = 2012
    /\ \A e \in Range(SPLITS) :
        (e.name \in DOMAIN mc /\ "evaluator_type" \in DOMAIN mc[e.name]) => e.name \in DOMAIN dc
    /\ pc[1] = "pascal_voc_evaluator" =>
        /\ SPLITS[pc[2]].name \in DOMAIN dc
        /\ \/ SPLITS[pc[2]].name \notin DOMAIN mc
           \/ "evaluator_type" \notin DOMAIN mc[SPLITS[pc[2]].name]

C7_Witness == pc = <<"web", 1>> /\ root = <<"datasets">>

(* C8: whenever the program is in the panoptic loop of                     *)
(* register_all_voc_sbd, at split P, the paired instance name (P with      *)
(* "_panoptic" replaced by "_instance") is a key of the instance table, is *)
(* bound, and has image_root and json_file; and no panoptic name is bound  *)
(* while its paired instance name is not.                                  *)
C8_InstanceFirst ==
    /\ \A p \in PanopticPrefixes : PrefixInstances(p) \in InstanceKeys /\ PrefixInstances(p) # p
    /\ pc[1] \in PanopticPhases =>
        LET pi == PrefixInstances(_PREDEFINED_SPLITS_VOC_SBD_PANOPTIC[pc[2]].prefix)
        IN  /\ pi \in DOMAIN dc
            /\ pi \in DOMAIN mc
            /\ {"image_root", "json_file"} \subseteq DOMAIN mc[pi]
    /\ \A p \in PanopticPrefixes :
        (p \in DOMAIN dc \/ SeparatedName(p) \in DOMAIN dc \/ p \in DOMAIN mc)
            => (PrefixInstances(p) \in DOMAIN dc /\ PrefixInstances(p) \in DOMAIN mc)

C8_Witness == pc = <<"panoptic_read", 1>> /\ err = "none"

(* C9: the image root and instances JSON handed to the separated and to    *)
(* the standard registration of P are the image_root and json_file of the  *)
(* paired instance record, and no step of the panoptic loop changes the    *)
(* binding or the record of any instance split.                            *)
C9_PanopticReadsInstance ==
    [][ /\ pc[1] \in PanopticPhases =>
            \A k \in InstanceKeys :
                /\ k \in DOMAIN dc' /\ dc'[k] = dc[k]
                /\ k \in DOMAIN mc' /\ mc'[k] = mc[k]
        /\ last'.fn = "register_coco_panoptic_separated" =>
            /\ last'.args[1] = mc'[PrefixInstances(last'.name)]["image_root"]
            /\ last'.args[5] = mc'[PrefixInstances(last'.name)]["json_file"]
            /\ mc'[SeparatedName(last'.name)]["image_root"] = mc'[PrefixInstances(last'.name)]["image_root"]
            /\ mc'[SeparatedName(last'.name)]["json_file"] = mc'[PrefixInstances(last'.name)]["json_file"]
        /\ last'.fn = "register_coco_panoptic" =>
            /\ last'.args[1] = mc'[PrefixInstances(last'.name)]["image_root"]
            /\ last'.args[4] = mc'[PrefixInstances(last'.name)]["json_file"]
            /\ mc'[last'.name]["image_root"] = mc'[PrefixInstances(last'.name)]["image_root"]
            /\ mc'[last'.name]["json_file"] = mc'[PrefixInstances(last'.name)]["json_file"]
      ]_vars

C9_Witness == pc[1] = "voc_json" /\ last.fn = "register_coco_panoptic" /\ err = "none"

(* C10: the bootstrap never raises and runs to its end; the names it       *)
(* produces are pairwise distinct, and at the end each is bound to a       *)
(* loader made for that name.                                              *)
C10_BootstrapSucceeds ==
    /\ err = "none"
    /\ pc[1] # "raised"
    /\ pc[1] # "done" => pc[2] \in 1..Len(TableOf(pc[1]))
    /\ Cardinality(ProducedNames) = ProducedCount
    /\ pc[1] = "done" =>
        /\ DOMAIN dc = ProducedNames
        /\ \A n \in ProducedNames : dc[n].name = n
        /\ \A n, m \in ProducedNames : n # m => dc[n].id # dc[m].id

C10_Witness == pc[1] = "done" /\ Cardinality(DOMAIN dc) = ProducedCount

-----------------------------------------------------------------------------
(* The catalogs and the loop bodies called one at a time (SpecOps): a      *)
(* caller makes any sequence of calls on the catalogs and of single        *)
(* iterations of the two loops of register_all_voc_sbd, in any order, and  *)
(* catches what each raises.  err is the outcome of the last call.         *)

OpsRoot == <<"datasets">>

OpsInstance == <<"x", "_", "instance">>

OpsPanoptic == <<"x", "_", "panoptic">>

OpsNames == {OpsInstance, OpsPanoptic}

\* two functions of the caller's own
UserLoaders == {Loader(-1, "user", <<"f">>, << >>, 0), Loader(-2, "user", <<"g">>, << >>, 0)}

OpsKeys == {"image_root", "json_file"}

OpsValues == {PathJoin(OpsRoot, <<"img">>), <<"other">>}

OpsDicts ==
    { << <<"image_root", PathJoin(OpsRoot, <<"img">>)>>, <<"json_file", <<"other">>>> >>,
      << <<"json_file", PathJoin(OpsRoot, <<"ann.json">>)>>, <<"image_root", <<"other">>>> >> }

OpsInstanceSplit == CocoSplit(NoDataset, OpsInstance, <<"img">>, <<"ann.json">>)

OpsPanopticSplit == PanopticSplit(OpsPanoptic, <<"pan">>, <<"pan.json">>, <<"stuff">>)

\* a dict as the arguments of a call: key, value, key, value, ...
RECURSIVE Flat(_)
Flat(kvs) == IF kvs = << >> THEN << >> ELSE << <<kvs[1][1]>>, kvs[1][2] >> \o Flat(Tail(kvs))

\* the catalogs as a call finds them: what an earlier call raised was caught
Caught == CatalogState(dc, mc, "none")

Return(s) ==
    /\ dc' = s.dc
    /\ mc' = s.mc
    /\ err' = s.err

InitOps ==
    /\ root = OpsRoot
    /\ dc = EmptyMap
    /\ mc = EmptyMap
    /\ err = "none"
    /\ pc = <<"ops", 0>>
    /\ loc = NoLocals
    /\ last = NoCall
    /\ ret = NoLoader
    /\ given = NoLoader
    /\ inp = NoInput

\* DatasetCatalog.get(name)
DatasetCatalog_get(s, name) ==
    IF name \in DOMAIN s.dc THEN s ELSE [s EXCEPT !.err = "UnknownDataset"]

OpRegister ==
    \E n \in OpsNames, f \in UserLoaders :
        /\ Return(DatasetCatalog_register(Caught, n, f))
        /\ last' = Call("register", n, << >>, 0)
        /\ given' = f
        /\ UNCHANGED <<root, pc, loc, ret, inp>>

OpGet ==
    \E n \in OpsNames \cup {SeparatedName(OpsPanoptic)} :
        /\ Return(DatasetCatalog_get(Caught, n))
        /\ ret' = IF n \in DOMAIN dc THEN dc[n] ELSE NoLoader
        /\ last' = Call("get", n, << >>, 0)
        /\ UNCHANGED <<root, pc, loc, given, inp>>

\* MetadataCatalog.get(name).key = value
OpSetattr ==
    \E n \in OpsNames, k \in OpsKeys, v \in OpsValues :
        /\ Return(Metadata_setattr(MetadataCatalog_get(Caught, n), n, k, v))
        /\ last' = Call("setattr", n, << <<k>>, v >>, 0)
        /\ UNCHANGED <<root, pc, loc, ret, given, inp>>

\* MetadataCatalog.get(name).set(**kvs)
OpSet ==
    \E kvs \in OpsDicts :
        /\ Return(Metadata_set(MetadataCatalog_get(Caught, OpsInstance), OpsInstance, kvs))
        /\ last' = Call("set", OpsInstance, Flat(kvs), 0)
        /\ UNCHANGED <<root, pc, loc, ret, given, inp>>

\* one iteration of the first loop of register_all_voc_sbd
OpVocSbdEntry ==
    /\ Return(VocSbdEntry(Caught, root, OpsInstanceSplit))
    /\ last' = Call("register_coco_instances", OpsInstance, CocoArgs(root, OpsInstanceSplit), 0)
    /\ UNCHANGED <<root, pc, loc, ret, given, inp>>

\* one iteration of its second loop
OpVocSbdPanopticEntry ==
    /\ Return(VocSbdPanopticEntry(Caught, root, OpsPanopticSplit))
    /\ last' = Call("panoptic_entry", OpsPanoptic, << >>, 0)
    /\ UNCHANGED <<root, pc, loc, ret, given, inp>>

NextOps ==
    \/ OpRegister
    \/ OpGet
    \/ OpSetattr
    \/ OpSet
    \/ OpVocSbdEntry
    \/ OpVocSbdPanopticEntry

SpecOps == InitOps /\ [][NextOps]_vars

-----------------------------------------------------------------------------
(* Properties of the catalogs and of the loop bodies (SpecOps) *)

(* C1: a binding, once made, is never removed or replaced by any later     *)
(* call; a register that succeeds leaves the name bound to the loader it   *)
(* was given; get returns the loader bound to the name, and on a name that *)
(* is not bound raises UnknownDataset and binds nothing.                   *)
C1_LookupReflectsRegistrations ==
    [][ /\ \A n \in DOMAIN dc : n \in DOMAIN dc' /\ dc'[n] = dc[n]
        /\ (last'.fn = "register" /\ err' = "none") =>
            /\ last'.name \in DOMAIN dc'
            /\ dc'[last'.name] = given'
        /\ last'.fn = "get" =>
            /\ dc' = dc
            /\ IF last'.name \in DOMAIN dc
               THEN err' = "none" /\ ret' = dc[last'.name]
               ELSE err' = "UnknownDataset" /\ last'.name \notin DOMAIN dc'
      ]_vars

C1_Witness ==
    /\ last.fn = "get" /\ err = "none" /\ ret.kind = "user"
    /\ Cardinality(DOMAIN dc) = 3

\* attribute k of n is set, to a value other than v
Conflicts(n, k, v) == n \in DOMAIN mc /\ k \in DOMAIN mc[n] /\ mc[n][k] # v

(* C3: an attribute that is set keeps the value it has, whatever is called *)
(* next; setting an attribute that is unset stores the value, setting it   *)
(* to the value it has changes nothing, setting it to another value raises *)
(* MetadataConflict and changes nothing; a bulk set raises                 *)
(* MetadataConflict exactly when one of its entries conflicts, and         *)
(* otherwise stores them all.                                              *)
C3_WriteOncePerValue ==
    [][ /\ \A n \in DOMAIN mc :
            /\ n \in DOMAIN mc'
            /\ \A k \in DOMAIN mc[n] : k \in DOMAIN mc'[n] /\ mc'[n][k] = mc[n][k]
        /\ last'.fn = "setattr" =>
            LET n == last'.name
                k == last'.args[1][1]
                v == last'.args[2]
            IN  IF n \in DOMAIN mc /\ k \in DOMAIN mc[n]
                THEN /\ mc' = mc
                     /\ err' = (IF mc[n][k] = v THEN "none" ELSE "MetadataConflict")
                ELSE /\ err' = "none"
                     /\ mc'[n][k] = v
        /\ last'.fn = "set" =>
            \A kvs \in OpsDicts :
                last'.args = Flat(kvs) =>
                    IF \E i \in DOMAIN kvs : Conflicts(last'.name, kvs[i][1], kvs[i][2])
                    THEN err' = "MetadataConflict"
                    ELSE /\ err' = "none"
                         /\ \A i \in DOMAIN kvs : mc'[last'.name][kvs[i][1]] = kvs[i][2]
      ]_vars

C3_Witness ==
    /\ last.fn = "setattr" /\ err = "MetadataConflict"
    /\ mc[last.name][last.args[1][1]] # last.args[2]

\* the record of the instance split lacks image_root or json_file
MissingPaired ==
    \/ OpsInstance \notin DOMAIN mc
    \/ ~(OpsKeys \subseteq DOMAIN mc[OpsInstance])

(* C4: an iteration of the panoptic loop that finds the paired instance    *)
(* record without image_root or without json_file raises                   *)
(* MissingPairedMetadata, binds no name and writes no attribute.           *)
C4_MissingPairedMetadata ==
    [][ (last'.fn = "panoptic_entry" /\ MissingPaired) =>
            /\ err' = "MissingPairedMetadata"
            /\ dc' = dc
            /\ \A n \in DOMAIN mc' :
                IF n \in DOMAIN mc THEN mc'[n] = mc[n] ELSE mc'[n] = EmptyMap
      ]_vars

C4_Witness ==
    /\ last.fn = "panoptic_entry" /\ err = "MissingPairedMetadata"
    /\ "image_root" \in DOMAIN mc[OpsInstance]
    /\ OpsPanoptic \notin DOMAIN dc
    /\ SeparatedName(OpsPanoptic) \notin DOMAIN dc

-----------------------------------------------------------------------------
(* The loop bodies applied to a table entry whose path fragments are any   *)
(* short strings (SpecPaths): inp = <<f, g>> are the fragments of the      *)
(* entry, and each routine's loop body runs once on empty catalogs, the    *)
(* panoptic one after the instance one.                                    *)

MaxFragLen == 3

PathTokens == {"a", ":", "/"}

Frags == UNION {[1..n -> PathTokens] : n \in 0..MaxFragLen}

\* the entries built from the fragments: image root f and JSON g, directory f,
\* panoptic root f, panoptic JSON g and semantic root g
InputCocoSplit == CocoSplit(<<"family">>, OpsInstance, inp[1], inp[2])

InputVocSplit == [name |-> <<"voc", "_", "2007", "_", "x">>, dirname |-> inp[1], split |-> <<"train">>]

InputPanopticSplit == PanopticSplit(OpsPanoptic, inp[1], inp[2], inp[2])

InitPaths ==
    /\ root \in Roots
    /\ dc = EmptyMap
    /\ mc = EmptyMap
    /\ err = "none"
    /\ pc = <<"paths", 0>>
    /\ loc = NoLocals
    /\ last = NoCall
    /\ ret = NoLoader
    /\ given = NoLoader
    /\ inp \in Frags \X Frags

PathsPascalVoc ==
    /\ pc[1] = "paths"
    /\ Commit(PascalVocEntry(Cur, root, InputVocSplit), <<"paths_done", 0>>)
    /\ last' = Call("register_pascal_voc", InputVocSplit.name, PascalVocArgs(root, InputVocSplit), PascalVocYear(InputVocSplit.name))
    /\ UNCHANGED <<root, loc, ret, given, inp>>

PathsWeb ==
    /\ pc[1] = "paths"
    /\ Commit(WebEntry(Cur, root, InputCocoSplit), <<"paths_done", 0>>)
    /\ last' = Call("register_coco_instances", OpsInstance, CocoArgs(root, InputCocoSplit), 0)
    /\ UNCHANGED <<root, loc, ret, given, inp>>

PathsVocPgt ==
    /\ pc[1] = "paths"
    /\ Commit(VocPgtEntry(Cur, root, InputCocoSplit), <<"paths_done", 0>>)
    /\ last' = Call("register_coco_instances", OpsInstance, CocoArgs(root, InputCocoSplit), 0)
    /\ UNCHANGED <<root, loc, ret, given, inp>>

PathsVocJson ==
    /\ pc[1] = "paths"
    /\ Commit(VocJsonEntry(Cur, root, InputCocoSplit), <<"paths_done", 0>>)
    /\ last' = Call("register_coco_instances", OpsInstance, CocoArgs(root, InputCocoSplit), 0)
    /\ UNCHANGED <<root, loc, ret, given, inp>>

PathsVocSbd ==
    /\ pc[1] = "paths"
    /\ Commit(VocSbdEntry(Cur, root, InputCocoSplit), <<"paths_separated", 0>>)
    /\ last' = Call("register_coco_instances", OpsInstance, CocoArgs(root, InputCocoSplit), 0)
    /\ UNCHANGED <<root, loc, ret, given, inp>>

PathsPanopticSeparated ==
    /\ pc[1] = "paths_separated"
    /\ LET s == PanopticRead(Cur, OpsPanoptic)
           l == PanopticLocals(s, OpsPanoptic)
       IN  /\ Commit(PanopticSeparated(s, root, InputPanopticSplit, l), <<"paths_standard", 0>>)
           /\ loc' = l
           /\ last' = Call("register_coco_panoptic_separated", OpsPanoptic, SeparatedArgs(root, InputPanopticSplit, l), 0)
    /\ UNCHANGED <<root, ret, given, inp>>

PathsPanopticStandard ==
    /\ pc[1] = "paths_standard"
    /\ Commit(PanopticStandard(Cur, root, InputPanopticSplit, loc), <<"paths_done", 0>>)
    /\ last' = Call("register_coco_panoptic", OpsPanoptic, StandardArgs(root, InputPanopticSplit, loc), 0)
    /\ UNCHANGED <<root, loc, ret, given, inp>>

NextPaths ==
    \/ PathsPascalVoc
    \/ PathsWeb
    \/ PathsVocPgt
    \/ PathsVocJson
    \/ PathsVocSbd
    \/ PathsPanopticSeparated
    \/ PathsPanopticStandard

SpecPaths == InitPaths /\ [][NextPaths]_vars

\* what the claim of C6 asks of a fragment: verbatim with "://", joined without
VerbatimOrJoined(r, f) == IF Contains(f, SchemeSep) THEN f ELSE PathJoin(r, f)

=============================================================================
